---------------------------- MODULE Spec2Model ----------------------------
(***************************************************************************)
(* hcpsdk.ips: DNS resolution (query) and the round-robin address pool     *)
(* (Circle), src/src/hcpsdk/ips/__init__.py.                               *)
(*                                                                         *)
(* One Circle object is shared by a set of threads.  Every entry point     *)
(* (Circle(), refresh(), _addr()) runs through Circle._addr, which is      *)
(* modelled statement by statement: acquire the lock (line 98), replace    *)
(* the generator when an fqdn was passed (99-100), resume the generator    *)
(* (101; its body is lines 86-95), release (102), return (103).  The DNS   *)
(* lookup inside the generator body is a step of its own, because it       *)
(* blocks on the network while the lock is held.  An exception raised      *)
(* inside _addr leaves it at once: nothing after the raising statement     *)
(* runs, as the method has no try/finally.                                 *)
(*                                                                         *)
(* Besides the pool (Spec), the module has the pool with callers that read *)
(* (ReadSpec) and change (MutateSpec) its address list, query() called on  *)
(* its own (QuerySpec), and hcpsdk.namespace.info.NSstatistics (NsSpec),   *)
(* src/src/hcpsdk/namespace/__init__.py.                                   *)
(***************************************************************************)
EXTENDS Integers, Sequences, FiniteSets, TLC

\* ------------------------------------------------------------------ bounds
\* longest address list a lookup answers with
MaxLen == 3
\* number of threads sharing the pool
NumThreads == 2

Threads == 1..NumThreads

\* ------------------------------------------------------- the DNS environment
\* Addresses of the two record sets the name may resolve to (disjoint, so
\* that a stale address is recognisable).
IpA == <<"10.0.0.1", "10.0.0.2", "10.0.0.3", "10.0.0.4", "10.0.0.5">>
IpB == <<"10.9.9.1", "10.9.9.2", "10.9.9.3", "10.9.9.4", "10.9.9.5">>

\* a typed address record; str() of it is the dotted-decimal address
ARecord(a) == [type |-> "A", address |-> a]
\* a record in the generic encoding; str() of it is `text' (a sequence of
\* characters), e.g. \# 4 C0A80101
GenericRecord(t) == [type |-> "generic", text |-> t]

ARecords(ips, n) == [i \in 1..n |-> ARecord(ips[i])]

\* What the name's lookup meets: one of the resolver failures, or an answer
\* with a (possibly empty) sequence of records.
Failure(k) == [kind |-> k, recs |-> <<>>]
Answer(rs) == [kind |-> "answer", recs |-> rs]

\* the situations the pool's lookups meet
PoolSituations ==
    {Failure("NXDOMAIN"), Failure("Timeout")}
    \cup {Answer(ARecords(IpA, n)) : n \in 0..MaxLen}
    \cup {Answer(ARecords(IpB, n)) : n \in 1..(MaxLen - 1)}

\* str(e) of the exception socket.getaddrinfo raises in a failing situation
GaiMessage(k) ==
    CASE k = "NXDOMAIN" -> "[Errno -2] Name or service not known"
      [] k = "Timeout"  -> "[Errno -3] Temporary failure in name resolution"
      [] OTHER          -> "[Errno -4] Non-recoverable failure in name resolution"

\* socket.getaddrinfo(fqdn, 443, AF_INET, SOCK_DGRAM): raises, or returns one
\* entry per address record; a[4][0] of an entry is the address.
getaddrinfo(s) ==
    IF s.kind = "answer"
    THEN [exc |-> "", msg |-> "",
          infos |-> [i \in 1..Len(s.recs) |-> s.recs[i].address]]
    ELSE [exc |-> "gaierror", msg |-> GaiMessage(s.kind), infos |-> <<>>]

\* str(e) of the exception dns.resolver.query raises in a failing situation
DnsMessage(k) ==
    CASE k = "NXDOMAIN" -> "None of DNS query names exist"
      [] k = "Timeout"  -> "The DNS operation timed out."
      [] k = "OSError"  -> "[Errno 101] Network is unreachable"
      [] OTHER          -> "All nameservers failed to answer the query."

\* dns.resolver.query(fqdn, raise_on_no_answer=True): raises the exception
\* class of the situation, or returns an answer whose rrset holds the records.
dns_resolver_query(s) ==
    IF s.kind = "answer"
    THEN [exc |-> "", msg |-> "", rrset |-> s.recs]
    ELSE [exc |-> s.kind, msg |-> DnsMessage(s.kind), rrset |-> <<>>]

\* ------------------------------------------------------------ text helpers
\* Characters are one-character strings; a text is a sequence of them.
HexLower == <<"0","1","2","3","4","5","6","7","8","9","a","b","c","d","e","f">>
HexUpper == <<"0","1","2","3","4","5","6","7","8","9","A","B","C","D","E","F">>
DecDigits == <<"0","1","2","3","4","5","6","7","8","9">>

IsHex(c) == \E i \in 1..16 : c = HexLower[i] \/ c = HexUpper[i]
HexVal(c) == (CHOOSE i \in 1..16 : c = HexLower[i] \/ c = HexUpper[i]) - 1
IsSpace(c) == c = " "

\* t[a:b] of Python for 0 <= a <= b: the characters at 0-based a .. b-1,
\* cut to what the text has
Slice(t, a, b) ==
    LET hi == IF b < Len(t) THEN b ELSE Len(t)
    IN  IF a >= hi THEN <<>> ELSE SubSeq(t, a + 1, hi)

\* t[-n:] of Python: the last n characters, the whole text if it is shorter
LastN(t, n) == IF Len(t) <= n THEN t ELSE SubSeq(t, Len(t) - n + 1, Len(t))

RECURSIVE LStrip(_)
LStrip(t) == IF t # <<>> /\ IsSpace(Head(t)) THEN LStrip(Tail(t)) ELSE t
RECURSIVE RStrip(_)
RStrip(t) ==
    IF t # <<>> /\ IsSpace(t[Len(t)]) THEN RStrip(SubSeq(t, 1, Len(t) - 1)) ELSE t

RECURSIVE HexDigitsVal(_, _)
HexDigitsVal(t, acc) ==
    IF t = <<>> THEN acc ELSE HexDigitsVal(Tail(t), 16 * acc + HexVal(Head(t)))

\* int(t, 16) of Python for a text of at most two characters: surrounding
\* white space is ignored and a sign is accepted; anything but hexadecimal
\* digits after that is a ValueError.
Strip(t) == RStrip(LStrip(t))
Signed(u) == u # <<>> /\ Head(u) \in {"+", "-"}
Unsigned(u) == IF Signed(u) THEN Tail(u) ELSE u
AllHex(b) == b # <<>> /\ \A i \in 1..Len(b) : IsHex(b[i])
int16_ok(t) == AllHex(Unsigned(Strip(t)))
int16(t) ==
    IF Signed(Strip(t)) /\ Head(Strip(t)) = "-"
    THEN 0 - HexDigitsVal(Unsigned(Strip(t)), 0)
    ELSE HexDigitsVal(Unsigned(Strip(t)), 0)

IsDec(c) == \E i \in 1..10 : c = DecDigits[i]
DecVal(c) == (CHOOSE i \in 1..10 : DecDigits[i] = c) - 1

RECURSIVE DecDigitsVal(_, _)
DecDigitsVal(t, acc) ==
    IF t = <<>> THEN acc ELSE DecDigitsVal(Tail(t), 10 * acc + DecVal(Head(t)))

\* int(t) of Python: surrounding white space is ignored and a sign is
\* accepted; anything but decimal digits after that is a ValueError.
AllDec(b) == b # <<>> /\ \A i \in 1..Len(b) : IsDec(b[i])
int10_ok(t) == AllDec(Unsigned(Strip(t)))
int10(t) ==
    IF Signed(Strip(t)) /\ Head(Strip(t)) = "-"
    THEN 0 - DecDigitsVal(Unsigned(Strip(t)), 0)
    ELSE DecDigitsVal(Unsigned(Strip(t)), 0)

\* '{}'.format(n) of an integer
RECURSIVE NatText(_)
NatText(n) ==
    IF n < 10 THEN <<DecDigits[n + 1]>>
    ELSE NatText(n \div 10) \o <<DecDigits[(n % 10) + 1]>>
IntText(n) == IF n < 0 THEN <<"-">> \o NatText(0 - n) ELSE NatText(n)

\* --------------------------------------------------------------- query()
\* a loop that appends str(i) of every record as it is
normalize_undecoded(rec) ==
    [exc |-> "", ip |-> IF rec.type = "A" THEN rec.address ELSE rec.text]

\* One record of the bypass path (lines 187-192): ip = str(i); a text whose
\* second character is '#' is decoded from its last 8 characters.  The
\* result is the appended address, or the exception the statement raises.
normalize(rec) ==
    IF rec.type = "A" THEN [exc |-> "", ip |-> rec.address]
    ELSE IF Len(rec.text) < 2 THEN [exc |-> "IndexError", ip |-> rec.text]
    ELSE IF rec.text[2] # "#" THEN [exc |-> "", ip |-> rec.text]
    ELSE IF \E k \in 0..3 : ~int16_ok(Slice(LastN(rec.text, 8), 2 * k, 2 * k + 2))
    THEN [exc |-> "ValueError", ip |-> rec.text]
    ELSE [exc |-> "",
          ip |-> IntText(int16(Slice(LastN(rec.text, 8), 0, 2))) \o <<".">>
                 \o IntText(int16(Slice(LastN(rec.text, 8), 2, 4))) \o <<".">>
                 \o IntText(int16(Slice(LastN(rec.text, 8), 4, 6))) \o <<".">>
                 \o IntText(int16(Slice(LastN(rec.text, 8), 6, 8)))]

\* the for loop of lines 186-192 over the rrset
RECURSIVE normalize_all(_, _)
normalize_all(rrset, acc) ==
    IF rrset = <<>> THEN [exc |-> "", ips |-> acc]
    ELSE LET n == normalize(Head(rrset))
         IN  IF n.exc # "" THEN [exc |-> n.exc, ips |-> acc]
             ELSE normalize_all(Tail(rrset), Append(acc, n.ip))

\* a handler with the last except clause only: str(e) for every exception
raised_for_str(exc, msg) == msg

\* the failure description of each except clause of lines 167-184
raised_for(exc, msg) ==
    CASE exc = "NXDOMAIN"      -> "NXDOMAIN - The query name does not exist."
      [] exc = "YXDOMAIN"      -> "The query name is too long after DNAME substitution."
      [] exc = "Timeout"       -> "The operation timed out."
      [] exc = "NoAnswer"      -> "The response did not contain an answer to the question."
      [] exc = "NoNameservers" -> "NoNameservers - No non-broken nameservers are available to answer the query."
      [] exc = "NotAbsolute"   -> "Raised if an absolute domain name is required but a relative name was provided."
      [] exc = "NoRootSOA"     -> "Raised if for some reason there is no SOA at the root name. This should never happen!"
      [] exc = "NoMetaqueries" -> "Metaqueries are not allowed."
      [] OTHER                 -> msg

\* the response object (lines 130-139), with `exc' the exception that left
\* query() instead of a response ("" when it returned)
response(fqdn, cache) ==
    [fqdn |-> fqdn, cache |-> cache, ips |-> <<>>, raised |-> "", exc |-> ""]

\* query(fqdn, cache) in situation s
query(fqdn, cache, s) ==
    LET _response == response(fqdn, cache)
    IN  IF cache
        THEN LET r == getaddrinfo(s)
             IN  IF r.exc # ""
                 THEN [_response EXCEPT !.raised = r.msg]
                 ELSE [_response EXCEPT !.ips = r.infos]
        ELSE LET r == dns_resolver_query(s)
             IN  IF r.exc # ""
                 THEN [_response EXCEPT !.raised = raised_for(r.exc, r.msg)]
                 ELSE LET n == normalize_all(r.rrset, <<>>)
                      IN  IF n.exc # ""
                          THEN [_response EXCEPT !.exc = n.exc, !.ips = n.ips]
                          ELSE IF Len(n.ips) = 0
                          THEN [_response EXCEPT !.raised = "no response"]
                          ELSE [_response EXCEPT !.ips = n.ips]

\* the name the pool is built for
Authority == "hcp.example.com"

\* ------------------------------------------------------------- the Circle
VARIABLES
    pool,         \* "none": no Circle object; "constructing": __init__ is
                  \* running; "ready": the constructor returned the object
    _cLock,       \* the Circle's threading.Lock: TRUE when locked
    _addresses,   \* the cached address list
    __generator,  \* the generator object of __addr: its state, the list its
                  \* for loop iterates and how many items the loop has taken
    pc,           \* per thread: where it stands in Circle._addr
    op,           \* per thread: the entry point it called
    myaddr,       \* per thread: the local myaddr of _addr
    ret,          \* per thread: how its last call ended: the kind of value
                  \* returned, or the exception raised and its reason
    got,          \* per thread: the response its call's lookup returned
    met,          \* per thread: the situation that lookup met
    pre,          \* _addresses and __generator when the lock was last taken
    served,       \* the last 2*MaxLen addresses handed to _addr() callers
                  \* since the generator was last replaced, in lock order
    nServed,      \* how many there were (counted up to 2*MaxLen + 1)
    genBy,        \* the entry point that created the current generator
    installed     \* the address list of the last lookup that succeeded

vars == <<pool, _cLock, _addresses, __generator, pc, op, myaddr, ret, got, met,
          pre, served, nServed, genBy, installed>>

VARIABLES
    view,         \* what a caller got from reading c._addresses: whether it
                  \* holds the list object the Circle holds now ("current"),
                  \* one the Circle has replaced ("stale") or none, and the
                  \* content of the object it holds
    qres,         \* the last direct call of query(): its arguments, the
                  \* situation it met and what it returned or raised
    nsres         \* the last call of info.NSstatistics(): what it met and
                  \* how it ended

allvars == <<vars, view, qres, nsres>>

NoView == [ref |-> "none", val |-> <<>>, n |-> 0]
\* self._addresses is bound to a new list object: a reference read before
\* now holds the old object
rebound(v) == IF v.ref = "current" THEN [v EXCEPT !.ref = "stale"] ELSE v
NoCall == [called |-> FALSE]

\* self.__generator = None (line 60)
NoGenerator == [st |-> "None", it |-> <<>>, idx |-> 0]
\* __addr(fqdn): a generator object whose body has not started
NewGenerator == [st |-> "created", it |-> <<>>, idx |-> 0]

NoResponse == [fqdn |-> "", cache |-> FALSE, ips |-> <<>>, raised |-> "",
               exc |-> "none"]
NoRet == [kind |-> "pending", val |-> ""]

\* the fqdn argument each entry point passes to _addr (lines 66, 110; the
\* callers of _addr() pass none)
fqdn_of(o) == IF o = "next" THEN "" ELSE Authority

\* Circle.__EMPTY_ADDRLIST.copy() and result.ips.copy() (lines 61, 86, 91)
copy(l) == l

\* a lock whose acquire() never waits
lock_free_always(l) == TRUE

\* threading.Lock.acquire() goes through only when the lock is free (line 98)
lock_free(l) == l = FALSE

\* a generator that is created once and never replaced
assign_generator_once(fqdn, g) ==
    IF fqdn # "" /\ g.st = "None" THEN NewGenerator ELSE g

\* lines 99-100: a call with an fqdn replaces the generator
assign_generator(fqdn, g) == IF fqdn # "" THEN NewGenerator ELSE g

\* the lookup issued with cache=False
__addr_query_bypass(dnsname, s) == query(dnsname, FALSE, s)

\* line 88: the lookup __addr issues
__addr_query(dnsname, s) == query(dnsname, TRUE, s)

\* a loop whose first yield does not take the item it hands out
gen_loop_unconsumed(addrs) ==
    IF Len(addrs) = 0
    THEN [out |-> "spin", val |-> "",
          gen |-> [st |-> "running", it |-> addrs, idx |-> 0]]
    ELSE [out |-> "yield", val |-> addrs[1],
          gen |-> [st |-> "suspended", it |-> addrs, idx |-> 0]]

\* lines 93-94: `while True' starts a for loop over self._addresses; with
\* an empty list the for loop ends at once and the while loop never yields
gen_loop(addrs) ==
    IF Len(addrs) = 0
    THEN [out |-> "spin", val |-> "",
          gen |-> [st |-> "running", it |-> addrs, idx |-> 0]]
    ELSE [out |-> "yield", val |-> addrs[1],
          gen |-> [st |-> "suspended", it |-> addrs, idx |-> 1]]

\* a generator whose for loop starts over at every resumption
gen_resume_restart(g, addrs) ==
    IF Len(addrs) = 0
    THEN [out |-> "spin", val |-> "",
          gen |-> [st |-> "running", it |-> addrs, idx |-> 0]]
    ELSE [out |-> "yield", val |-> addrs[1],
          gen |-> [st |-> "suspended", it |-> addrs, idx |-> 1]]

\* resuming the generator at its yield (line 95): the for loop takes the
\* next item of the list it iterates, or ends and the while loop starts over
gen_resume(g, addrs) ==
    IF g.idx < Len(g.it)
    THEN [out |-> "yield", val |-> g.it[g.idx + 1],
          gen |-> [g EXCEPT !.idx = g.idx + 1]]
    ELSE gen_loop(addrs)

\* next(self.__generator) (line 101) on a generator that is not new
gen_next(g, addrs) ==
    CASE g.st = "suspended" -> gen_resume(g, addrs)
      [] g.st = "None"      -> [out |-> "TypeError", val |-> "", gen |-> g]
      [] g.st = "closed"    -> [out |-> "StopIteration", val |-> "", gen |-> g]
      [] OTHER              -> [out |-> "ValueError", val |-> "", gen |-> g]

\* ghost bookkeeping of the addresses handed out
Window == 2 * MaxLen
push(w, v) == IF Len(w) < Window THEN Append(w, v) ELSE Append(Tail(w), v)
count(n) == IF n <= Window THEN n + 1 ELSE n

Init ==
    /\ pool = "none"
    /\ _cLock = FALSE
    /\ _addresses = <<>>
    /\ __generator = NoGenerator
    /\ pc = [t \in Threads |-> "idle"]
    /\ op = [t \in Threads |-> "none"]
    /\ myaddr = [t \in Threads |-> ""]
    /\ ret = [t \in Threads |-> NoRet]
    /\ got = [t \in Threads |-> NoResponse]
    /\ met = [t \in Threads |-> "none"]
    /\ pre = [_addresses |-> <<>>, __generator |-> NoGenerator]
    /\ served = <<>>
    /\ nServed = 0
    /\ genBy = "none"
    /\ installed = <<>>
    /\ view = NoView
    /\ qres = NoCall
    /\ nsres = NoCall

\* Circle(fqdn): lines 57-62 build a new object, line 66 calls _addr(fqdn)
Construct(t) ==
    /\ pool = "none"
    /\ pc[t] = "idle"
    /\ pool' = "constructing"
    /\ _cLock' = FALSE
    /\ __generator' = NoGenerator
    /\ _addresses' = copy(<<>>)
    /\ pc' = [pc EXCEPT ![t] = "acquire"]
    /\ op' = [op EXCEPT ![t] = "construct"]
    /\ ret' = [ret EXCEPT ![t] = NoRet]
    /\ got' = [got EXCEPT ![t] = NoResponse]
    /\ met' = [met EXCEPT ![t] = "none"]
    /\ served' = <<>>
    /\ nServed' = 0
    /\ genBy' = "none"
    /\ installed' = <<>>
    /\ UNCHANGED <<myaddr, pre, view, qres, nsres>>

\* a thread calls refresh() (line 110) or _addr() on the constructed object
Call(t, o) ==
    /\ pool = "ready"
    /\ pc[t] = "idle"
    /\ pc' = [pc EXCEPT ![t] = "acquire"]
    /\ op' = [op EXCEPT ![t] = o]
    /\ ret' = [ret EXCEPT ![t] = NoRet]
    /\ got' = [got EXCEPT ![t] = NoResponse]
    /\ met' = [met EXCEPT ![t] = "none"]
    /\ UNCHANGED <<pool, _cLock, _addresses, __generator, myaddr, pre, served,
                   nServed, genBy, installed, view, qres, nsres>>

Refresh(t) == Call(t, "refresh")
NextAddress(t) == Call(t, "next")

\* line 98: self._cLock.acquire()
Acquire(t) ==
    /\ pc[t] = "acquire"
    /\ lock_free(_cLock)
    /\ _cLock' = TRUE
    /\ pc' = [pc EXCEPT ![t] = "locked"]
    /\ pre' = [_addresses |-> _addresses, __generator |-> __generator]
    /\ UNCHANGED <<pool, _addresses, __generator, op, myaddr, ret, got, met, served,
                   nServed, genBy, installed, view, qres, nsres>>

\* an exception leaves _addr: the thread is back at its caller with the
\* exception, and a failed constructor leaves no object
Raise(t, kind, val) ==
    /\ pc' = [pc EXCEPT ![t] = "idle"]
    /\ ret' = [ret EXCEPT ![t] = [kind |-> kind, val |-> val]]
    /\ pool' = IF op[t] = "construct" THEN "none" ELSE pool

\* the generator yielded v to thread t (line 101 assigns myaddr)
Yield(t, v) ==
    /\ myaddr' = [myaddr EXCEPT ![t] = v]
    /\ pc' = [pc EXCEPT ![t] = "release"]
    /\ UNCHANGED <<pool, ret>>

\* lines 99-101 up to the lookup: the generator is replaced when an fqdn was
\* passed, and next() runs it.  A new generator starts its body: line 86
\* empties the list and line 88 starts the lookup.  An old one resumes.
Enter(t) ==
    /\ pc[t] = "locked"
    /\ LET g == assign_generator(fqdn_of(op[t]), __generator)
       IN  IF g.st = "created"
           THEN /\ __generator' = [g EXCEPT !.st = "running"]
                /\ _addresses' = copy(<<>>)
                /\ view' = rebound(view)
                /\ pc' = [pc EXCEPT ![t] = "resolving"]
                /\ served' = <<>>
                /\ nServed' = 0
                /\ genBy' = op[t]
                /\ UNCHANGED <<pool, myaddr, ret>>
           ELSE LET r == gen_next(g, _addresses)
                IN  /\ __generator' = r.gen
                    /\ UNCHANGED <<_addresses, genBy, view>>
                    /\ IF r.out = "yield"
                       THEN /\ Yield(t, r.val)
                            /\ served' = push(served, r.val)
                            /\ nServed' = count(nServed)
                       ELSE /\ UNCHANGED <<served, nServed>>
                            /\ IF r.out = "spin"
                               THEN /\ pc' = [pc EXCEPT ![t] = "spin"]
                                    /\ UNCHANGED <<pool, myaddr, ret>>
                               ELSE /\ Raise(t, r.out, "")
                                    /\ UNCHANGED myaddr
    /\ UNCHANGED <<_cLock, op, got, met, pre, installed, qres, nsres>>

\* lines 88-95: the lookup returns in situation s.  A failure description
\* raises IpsError out of the generator and out of _addr; otherwise the list
\* is stored and the loop yields its first address, or spins on an empty one.
Resolve(t) ==
    /\ pc[t] = "resolving"
    /\ \E s \in PoolSituations :
         LET result == __addr_query(Authority, s)
         IN  /\ got' = [got EXCEPT ![t] = result]
             /\ met' = [met EXCEPT ![t] = s.kind]
             /\ IF result.exc # ""
                THEN /\ Raise(t, result.exc, "")
                     /\ __generator' = [__generator EXCEPT !.st = "closed"]
                     /\ UNCHANGED <<_addresses, myaddr, installed, view>>
                ELSE IF result.raised # ""
                THEN /\ Raise(t, "IpsError", result.raised)
                     /\ __generator' = [__generator EXCEPT !.st = "closed"]
                     /\ UNCHANGED <<_addresses, myaddr, installed, view>>
                ELSE LET r == gen_loop(copy(result.ips))
                     IN  /\ _addresses' = copy(result.ips)
                         /\ view' = rebound(view)
                         /\ __generator' = r.gen
                         /\ installed' = result.ips
                         /\ IF r.out = "yield"
                            THEN Yield(t, r.val)
                            ELSE /\ pc' = [pc EXCEPT ![t] = "spin"]
                                 /\ UNCHANGED <<pool, myaddr, ret>>
    /\ UNCHANGED <<_cLock, op, pre, served, nServed, genBy, qres, nsres>>

\* lines 102-103: release the lock and return myaddr; refresh() drops the
\* value, and the constructor returns the object
Release(t) ==
    /\ pc[t] = "release"
    /\ _cLock' = FALSE
    /\ pc' = [pc EXCEPT ![t] = "idle"]
    /\ ret' = [ret EXCEPT ![t] =
                 IF op[t] = "next" THEN [kind |-> "address", val |-> ""]
                 ELSE IF op[t] = "refresh" THEN [kind |-> "None", val |-> ""]
                 ELSE [kind |-> "Circle", val |-> ""]]
    /\ pool' = IF op[t] = "construct" THEN "ready" ELSE pool
    /\ myaddr' = [myaddr EXCEPT ![t] = ""]
    /\ got' = [got EXCEPT ![t] = NoResponse]
    /\ met' = [met EXCEPT ![t] = "none"]
    /\ UNCHANGED <<_addresses, __generator, op, pre, served, nServed, genBy,
                   installed, view, qres, nsres>>

Next ==
    \E t \in Threads :
        \/ Construct(t)
        \/ Refresh(t)
        \/ NextAddress(t)
        \/ Acquire(t)
        \/ Enter(t)
        \/ Resolve(t)
        \/ Release(t)

Spec == Init /\ [][Next]_allvars

\* ------------------------------------------------- callers of query()
\* the exception classes the bypass path names in an except clause of its
\* own (lines 167-182), and one that only `except Exception' catches (183)
DistinguishedKinds ==
    {"NXDOMAIN", "YXDOMAIN", "Timeout", "NoAnswer", "NoNameservers",
     "NotAbsolute", "NoRootSOA", "NoMetaqueries"}
OtherKind == "OSError"

\* str() of records in the generic encoding (\# <length> <hex data>), as
\* character sequences
TextC0A80101 == <<"\\","#"," ","4"," ","C","0","A","8","0","1","0","1">>
Text0a0000ff == <<"\\","#"," ","4"," ","0","a","0","0","0","0","f","f">>
TextSixBytes ==
    <<"\\","#"," ","6"," ","0","1","0","2","C","0","A","8","0","1","0","1">>
TextTwoBytes == <<"\\","#"," ","2"," ","c","0","a","8">>
TextThreeBytes == <<"\\","#"," ","3"," ","a","8","0","1","0","1">>
\* str() of a record that is not in the generic encoding
TextPlain == <<"f","e","8","0",":",":","1">>

\* the records an answer of the internal resolver is made of
Records ==
    {ARecord("10.0.0.1"), ARecord("192.168.1.1"),
     GenericRecord(TextC0A80101), GenericRecord(Text0a0000ff),
     GenericRecord(TextSixBytes), GenericRecord(TextTwoBytes),
     GenericRecord(TextThreeBytes), GenericRecord(TextPlain)}

SeqsUpTo(S, n) == UNION {[1..k -> S] : k \in 0..n}

\* what a lookup of query() meets: socket.getaddrinfo answers with address
\* entries only; dns.resolver.query with records of any form
QuerySituations(cache) ==
    IF cache
    THEN {Failure(k) : k \in {"NXDOMAIN", "Timeout", "Other"}}
         \cup {Answer(rs) : rs \in SeqsUpTo({ARecord("10.0.0.1"),
                                             ARecord("192.168.1.1")}, MaxLen)}
    ELSE {Failure(k) : k \in DistinguishedKinds \cup {OtherKind}}
         \cup {Answer(rs) : rs \in SeqsUpTo(Records, MaxLen)}

Fqdns == {Authority, "ns1.example.com"}

\* a caller calls query(fqdn, cache) (line 142) and the lookup meets s
DirectQuery(fqdn, cache, s) ==
    /\ ~qres.called
    /\ qres' = [called |-> TRUE, s |-> s, r |-> query(fqdn, cache, s)]
    /\ UNCHANGED <<vars, view, nsres>>

\* the caller is done with the response and may call again
DropResponse ==
    /\ qres.called
    /\ qres' = NoCall
    /\ UNCHANGED <<vars, view, nsres>>

QueryNext ==
    \/ \E fqdn \in Fqdns, cache \in BOOLEAN :
          \E s \in QuerySituations(cache) : DirectQuery(fqdn, cache, s)
    \/ DropResponse

\* query() called on its own, in every situation of either path
QuerySpec == Init /\ [][QueryNext]_allvars

\* ------------------------------------------------ callers reading the list
\* A caller reads c._addresses (lines 113-118; the instance attribute itself
\* is found first): it receives the list object the Circle holds, without
\* taking the lock.
__getattr__ ==
    /\ pool = "ready"
    /\ view' = [view EXCEPT !.ref = "current", !.val = _addresses]
    /\ UNCHANGED <<vars, qres, nsres>>

ReadNext == Next \/ __getattr__

\* the pool with callers that read its address list
ReadSpec == Init /\ [][ReadNext]_allvars

\* ------------------------------------------- callers changing what they read
\* an address no lookup of the environment returns
Foreign == "6.6.6.6"

\* the number of changes the callers make to lists they were given
MaxMutations == 2

\* the list methods a caller applies to the list it was given
list_append(l, v) == Append(l, v)
list_pop(l) == SubSeq(l, 1, Len(l) - 1)

\* The accessor returns self._addresses itself (line 118), and the for loop
\* of line 94 iterates that same object: a change made through a reference
\* to the bound list is a change of the list, seen by the suspended loop.
\* A reference to a list that was rebound since (lines 86, 91) changes only
\* the caller's own object.
Mutated(l) ==
    /\ view.ref # "none"
    /\ view.n < MaxMutations
    /\ view' = [view EXCEPT !.val = l, !.n = view.n + 1]
    /\ IF view.ref = "current"
       THEN /\ _addresses' = l
            /\ __generator' = IF __generator.st = "suspended"
                              THEN [__generator EXCEPT !.it = l]
                              ELSE __generator
       ELSE UNCHANGED <<_addresses, __generator>>
    /\ UNCHANGED <<pool, _cLock, pc, op, myaddr, ret, got, met, pre, served,
                   nServed, genBy, installed, qres, nsres>>

MutateAppend ==
    /\ Len(view.val) <= MaxLen
    /\ Foreign \notin {view.val[i] : i \in 1..Len(view.val)}
    /\ Mutated(list_append(view.val, Foreign))

MutatePop ==
    /\ view.val # <<>>
    /\ Mutated(list_pop(view.val))

\* lines 93-95: a thread looping over an empty list (`while True' around a
\* for loop that ends at once) finds an item once the list has one
Unspin(t) ==
    /\ pc[t] = "spin"
    /\ _addresses # <<>>
    /\ LET r == gen_loop(_addresses)
       IN  /\ __generator' = r.gen
           /\ Yield(t, r.val)
           /\ served' = push(served, r.val)
           /\ nServed' = count(nServed)
    /\ UNCHANGED <<_cLock, _addresses, op, got, met, pre, genBy, installed,
                   view, qres, nsres>>

MutateNext ==
    \/ Next
    \/ __getattr__
    \/ MutateAppend
    \/ MutatePop
    \/ \E t \in Threads : Unspin(t)

\* the pool with callers that read its address list and change what they got
MutateSpec == Init /\ [][MutateNext]_allvars

\* ------------------------------------------- hcpsdk.namespace.info.NSstatistics
\* src/src/hcpsdk/namespace/__init__.py.  Values are tagged records of one
\* shape: None, a bool, an int, a str (a character sequence) or a dict.
PyNone == [t |-> "None", b |-> FALSE, n |-> 0, s |-> <<>>]
PyBool(b) == [t |-> "bool", b |-> b, n |-> 0, s |-> <<>>]
PyInt(n) == [t |-> "int", b |-> FALSE, n |-> n, s |-> <<>>]
PyStr(s) == [t |-> "str", b |-> FALSE, n |-> 0, s |-> s]

\* lines 198-212: 'true' and 'false' become bools, a text int() accepts
\* becomes an int, anything else stays the string
_castVar(var) ==
    IF var = <<"t","r","u","e">> THEN PyBool(TRUE)
    ELSE IF var = <<"f","a","l","s","e">> THEN PyBool(FALSE)
    ELSE IF int10_ok(var) THEN PyInt(int10(var))
    ELSE PyStr(var)

\* attribute names of the statistics element; the schema attribute is the
\* one whose qualified name starts with '{http'
SchemaKey == "{http://www.w3.org/2001/XMLSchema-instance}noNamespaceSchemaLocation"
StatKeys == {"objectCount", "namespaceName"}
AttribKeys == StatKeys \cup {SchemaKey}
startswith_http(k) == k = SchemaKey

\* attribute values as the server writes them
RawValues ==
    {<<"t","r","u","e">>, <<"f","a","l","s","e">>, <<"4","2">>, <<"-","7">>,
     <<"n","s","1">>}

\* root.attrib of the documents a 200 response may carry (line 74)
Attribs == UNION {[K -> RawValues] : K \in SUBSET AttribKeys}

\* What one call meets: hcpsdk.connection() raises or returns a connection;
\* con.request() raises or returns a response with a status; a 200 body
\* parses to an element or does not; con.close() returns or raises.
NsSituations ==
    {[conn |-> "fail", req |-> "none", status |-> 0, body |-> "none",
      attrib |-> <<>>, close |-> "none"]}
    \cup {[conn |-> "ok", req |-> "fail", status |-> 0, body |-> "none",
           attrib |-> <<>>, close |-> c] : c \in {"ok", "fail"}}
    \cup {[conn |-> "ok", req |-> "ok", status |-> st, body |-> "none",
           attrib |-> <<>>, close |-> c] :
               st \in {401, 404, 503}, c \in {"ok", "fail"}}
    \cup {[conn |-> "ok", req |-> "ok", status |-> 200, body |-> "malformed",
           attrib |-> <<>>, close |-> c] : c \in {"ok", "fail"}}
    \cup {[conn |-> "ok", req |-> "ok", status |-> 200, body |-> "xml",
           attrib |-> a, close |-> c] : a \in Attribs, c \in {"ok", "fail"}}

\* lines 74-82: d = root.attrib, every value but the schema attribute's is
\* cast, and the schema attribute is deleted
cast_attrib(a) ==
    [k \in {j \in DOMAIN a : ~startswith_http(j)} |-> _castVar(a[k])]

\* The try statement of lines 58-84: the exception it ends with ("" when it
\* runs through), and the value of d at that point.
ns_try(i) ==
    IF i.conn = "fail" THEN [exc |-> "HcpsdkError", d |-> PyNone, dict |-> <<>>]
    ELSE IF i.req = "fail" THEN [exc |-> "HcpsdkError", d |-> PyNone, dict |-> <<>>]
    ELSE IF i.status # 200 THEN [exc |-> "HcpsdkError", d |-> PyNone, dict |-> <<>>]
    ELSE IF i.body = "malformed" THEN [exc |-> "ParseError", d |-> PyNone, dict |-> <<>>]
    ELSE [exc |-> "", d |-> [PyNone EXCEPT !.t = "dict"], dict |-> cast_attrib(i.attrib)]

\* The finally clause of lines 85-87 after the try statement ended as tr:
\* con.close() fails on the unbound local `con' when no connection was made,
\* or raises its own exception, and either replaces the pending exception;
\* otherwise `return d' ends the call, discarding a pending exception.
ns_finally(i, tr) ==
    IF i.conn = "fail"
    THEN [out |-> "raise", exc |-> "UnboundLocalError", d |-> PyNone, dict |-> <<>>]
    ELSE IF i.close = "fail"
    THEN [out |-> "raise", exc |-> "OSError", d |-> PyNone, dict |-> <<>>]
    ELSE [out |-> "return", exc |-> "", d |-> tr.d, dict |-> tr.dict]

\* info.NSstatistics() in situation i (lines 50-87)
NSstatistics(i) == ns_finally(i, ns_try(i))

\* a caller calls NSstatistics() and the call meets situation i
CallNSstatistics(i) ==
    /\ ~nsres.called
    /\ nsres' = [called |-> TRUE, i |-> i, r |-> NSstatistics(i)]
    /\ UNCHANGED <<vars, view, qres>>

\* the caller is done with the outcome and may call again
DropStatistics ==
    /\ nsres.called
    /\ nsres' = NoCall
    /\ UNCHANGED <<vars, view, qres>>

NsNext ==
    \/ \E i \in NsSituations : CallNSstatistics(i)
    \/ DropStatistics

\* NSstatistics() called in every situation
NsSpec == Init /\ [][NsNext]_allvars

\* ------------------------------------------------------------ properties
Range(l) == {l[i] : i \in 1..Len(l)}
IndexOf(l, v) == CHOOSE i \in 1..Len(l) : l[i] = v
\* the position after position i of a list of n, cyclically
After(i, n) == (i % n) + 1
Occurrences(w, v) == Cardinality({k \in 1..Len(w) : w[k] = v})

\* thread t stands between statements of _addr with myaddr assigned
Holding(t, o) == op[t] = o /\ pc[t] = "release"
\* thread t's call raised IpsError
Failed(t, o) == op[t] = o /\ pc[t] = "idle" /\ ret[t].kind = "IpsError"

\* C1: with no refresh in between, consecutive _addr() calls cycle through
\* the cached list: each call returns the address after the one the call
\* before it returned, any N consecutive calls return every address once,
\* and 2N consecutive calls return every address twice, the second round
\* only after the first is complete.
C1_Cycle ==
    served # <<>> =>
        LET N == Len(_addresses)
        IN  /\ N > 0
            /\ \A k \in 1..Len(served) : served[k] \in Range(_addresses)
            /\ \A k \in 1..(Len(served) - 1) :
                 served[k + 1] =
                     _addresses[After(IndexOf(_addresses, served[k]), N)]
            /\ \A k \in 1..(Len(served) - N + 1) :
                 {served[j] : j \in k..(k + N - 1)} = Range(_addresses)
            /\ \A k \in 1..(Len(served) - 2 * N + 1) :
                 LET w == SubSeq(served, k, k + 2 * N - 1)
                 IN  /\ \A a \in Range(_addresses) : Occurrences(w, a) = 2
                     /\ Range(SubSeq(w, 1, N)) = Range(_addresses)

C1_Witness ==
    /\ Len(_addresses) = MaxLen
    /\ Len(served) = 2 * MaxLen
    /\ nServed > Window

\* C2 (as claimed): when refresh() raises IpsError, the cached list and the
\* generator are what they were when the call took the lock, and the lock is
\* free for the next _addr() call.
C2_Original ==
    \A t \in Threads :
        Failed(t, "refresh") =>
            /\ _addresses = pre._addresses
            /\ __generator = pre.__generator
            /\ lock_free(_cLock)

\* C3 (as claimed): an _addr() call on a constructed pool never raises, and
\* whenever it waits for the lock some thread is on its way to releasing it;
\* stated for the runs in which every lookup failed or answered with
\* addresses, so that no thread loops on an empty list.
C3_Original ==
    \A t \in Threads :
        (op[t] = "next" /\ \A u \in Threads : pc[u] # "spin") =>
            /\ ret[t].kind \in {"pending", "address"}
            /\ pc[t] # "spin"
            /\ (pc[t] = "acquire" /\ ~lock_free(_cLock)) =>
                   \E u \in Threads : pc[u] \in {"locked", "resolving", "release"}

\* C4 (as claimed): the first _addr() call after a successful refresh()
\* returns the first address of the new list.
C4_Original ==
    (genBy = "refresh" /\ nServed \in 1..Window) => served[1] = _addresses[1]

\* C4 (amended): refresh()'s own _addr(fqdn) call receives the first address
\* of the new list, so the first _addr() call after a successful refresh()
\* returns the address after it: the second, or the only one.
C4_AfterRefresh ==
    /\ \A t \in Threads :
         Holding(t, "refresh") =>
             /\ _addresses # <<>>
             /\ _addresses = got[t].ips
             /\ myaddr[t] = _addresses[1]
             /\ __generator = [st |-> "suspended", it |-> _addresses, idx |-> 1]
             /\ nServed = 0
    /\ (genBy = "refresh" /\ nServed \in 1..Window) =>
           served[1] = _addresses[After(1, Len(_addresses))]

C4_Witness ==
    /\ genBy = "refresh"
    /\ nServed = 1
    /\ Len(_addresses) >= 2
    /\ \E t \in Threads : op[t] = "refresh" /\ ret[t].kind = "None"

\* C5 (as claimed): the first N _addr() calls on a freshly constructed pool
\* return list[0], ..., list[N-1] in lock order.
C5_Original ==
    (genBy = "construct" /\ nServed \in 1..Len(_addresses)) =>
        \A k \in 1..nServed : served[k] = _addresses[k]

\* C5 (amended): the constructor's own _addr(fqdn) call takes list[0], so the
\* first N _addr() calls on a freshly constructed pool return, in lock
\* order, list[1], ..., list[N-1], list[0]: every address once, in
\* resolution order starting from the second.
C5_AfterConstruct ==
    (genBy = "construct" /\ nServed \in 1..Len(_addresses)) =>
        /\ Len(served) = nServed
        /\ \A k \in 1..nServed :
             served[k] = _addresses[After(k, Len(_addresses))]
        /\ nServed = Len(_addresses) => Range(served) = Range(_addresses)

C5_Witness ==
    /\ genBy = "construct"
    /\ Len(_addresses) = MaxLen
    /\ nServed = MaxLen
    /\ \E t \in Threads : \E u \in Threads \ {t} :
         Holding(t, "next") /\ op[u] = "next" /\ ret[u].kind = "address"

\* C6: an _addr() call receives its address from a completely installed
\* list: the cached list is the list of the last lookup that succeeded, the
\* generator iterates that list, and the address is one of it; and a
\* refresh() that is about to return has installed the list of its own
\* lookup.  So a call racing a refresh() is served from the list before or
\* the list after it, and a call after it only from the new list.
C6_OldOrNew ==
    \A t \in Threads :
        /\ Holding(t, "next") =>
               /\ _addresses = installed
               /\ __generator.st = "suspended"
               /\ __generator.it = installed
               /\ myaddr[t] \in Range(installed)
               /\ myaddr[t] = installed[__generator.idx]
        /\ Holding(t, "refresh") =>
               /\ got[t] # NoResponse
               /\ got[t].raised = ""
               /\ installed = got[t].ips
               /\ _addresses = installed
               /\ __generator.it = installed

\* a refresh() has replaced a 3-address list by a 2-address list and is about
\* to return, while an _addr() call of another thread waits for the lock
C6_Witness ==
    \E u \in Threads : \E t \in Threads \ {u} :
        /\ Holding(u, "refresh")
        /\ Len(pre._addresses) = 3
        /\ Len(_addresses) = 2
        /\ Range(_addresses) \cap Range(pre._addresses) = {}
        /\ op[t] = "next" /\ pc[t] = "acquire"

\* C7: the step in which an _addr() call receives its address moves the
\* cursor by exactly one position, cyclically, and returns the address at
\* the new position, and no other thread is inside the critical section
\* during it; so in lock order no position is returned twice or skipped.
Serves(t) == op[t] = "next" /\ pc[t] = "locked" /\ pc'[t] = "release"
C7_Atomic ==
    [][\A t \in Threads :
         Serves(t) =>
             /\ Len(_addresses) > 0
             /\ __generator'.idx = After(__generator.idx, Len(_addresses))
             /\ myaddr'[t] = _addresses[__generator'.idx]
             /\ _addresses' = _addresses
             /\ \A u \in Threads \ {t} : pc[u] \in {"idle", "acquire"}]_vars

C7_Witness ==
    \E t \in Threads : \E u \in Threads \ {t} :
        /\ Holding(t, "next")
        /\ op[u] = "next" /\ pc[u] = "acquire"
        /\ nServed >= 2

\* the step in which thread t's constructor call raises
ConstructRaises(t) ==
    op[t] = "construct" /\ pc[t] = "resolving" /\ pc'[t] = "idle"

\* C8 (as claimed): a constructor whose lookup fails raises IpsError with
\* the lookup's failure description, which for a name that does not exist
\* is "NXDOMAIN - The query name does not exist.", and leaves no object.
C8_Original ==
    [][\A t \in Threads :
         ConstructRaises(t) =>
             /\ pool' = "none"
             /\ ret'[t] = [kind |-> "IpsError", val |-> got'[t].raised]
             /\ got'[t].raised # ""
             /\ met'[t] = "NXDOMAIN" =>
                    ret'[t].val = "NXDOMAIN - The query name does not exist."]_vars

\* C8 (amended): a constructor whose lookup fails raises IpsError with the
\* lookup's failure description, which on the system-resolver path the pool
\* uses is the text of the exception socket.getaddrinfo raised (also for a
\* name that does not exist), and leaves no object.
C8_ConstructFails ==
    [][\A t \in Threads :
         ConstructRaises(t) =>
             /\ pool' = "none"
             /\ ret'[t] = [kind |-> "IpsError", val |-> got'[t].raised]
             /\ got'[t].raised # ""
             /\ got'[t].raised = GaiMessage(met'[t])
             /\ got'[t].ips = <<>>]_vars

C8_Witness ==
    \E t \in Threads :
        /\ Failed(t, "construct")
        /\ met[t] = "NXDOMAIN"
        /\ ret[t].val = "[Errno -2] Name or service not known"
        /\ pool = "none"

\* C9 (as claimed): every lookup of the pool is a query that by-passes the
\* cache (cache=False).
C9_Original ==
    \A t \in Threads : got[t] # NoResponse => got[t].cache = FALSE

\* C9 (amended): every lookup of the pool, at construction and at
\* refresh(), is a query for the pool's name through the system resolver
\* (cache=True), never the by-passing one.
C9_SystemResolver ==
    \A t \in Threads :
        got[t] # NoResponse =>
            /\ got[t].cache = TRUE
            /\ got[t].fqdn = Authority
            /\ got[t].exc = ""
            /\ got[t].raised \in {"", GaiMessage(met[t])}

C9_Witness ==
    /\ \E t \in Threads : Holding(t, "refresh") /\ got[t].cache = TRUE
    /\ \E t \in Threads : op[t] = "construct" /\ ret[t].kind = "Circle"

\* C10 (as claimed): whenever a constructed pool is between operations, its
\* cached address list is not empty.
C10_Original ==
    (pool = "ready" /\ \A t \in Threads : pc[t] = "idle") => _addresses # <<>>


\* a step in which a caller reads c._addresses
Reads == view' # view /\ view'.ref = "current" /\ UNCHANGED vars

\* C11 (as claimed): a thread that reads the cached address list, at any
\* moment, sees a complete resolved list: the list of the last lookup that
\* succeeded (the previous one while a refresh() is in flight), never an
\* empty or intermediate value.
C11_Original ==
    [][Reads => (view'.val # <<>> /\ view'.val = installed)]_allvars


\* a step in which a caller changes the list the accessor gave it
Mutates == view.ref # "none" /\ view'.ref = view.ref /\ view'.val # view.val

\* C12 (as claimed): the accessor returns a snapshot copy: changing the value
\* it returned changes neither the pool's cached list nor the loop that
\* produces the addresses of later next_address() calls.
C12_Original ==
    [][Mutates => UNCHANGED <<_addresses, __generator>>]_allvars


\* C13 (as claimed): query() never raises: whatever the lookup meets, on
\* either path, the call returns a response object and no exception leaves it.
C13_Original == qres.called => qres.r.exc = ""


\* C14 (as claimed): every response query() returns, on either path, has
\* exactly one of a non-empty address list and a non-empty failure
\* description, and an answer without address records is described as
\* "no response".
C14_Original ==
    (qres.called /\ qres.r.exc = "") =>
        /\ (qres.r.ips # <<>>) # (qres.r.raised # "")
        /\ (qres.s.kind = "answer" /\ qres.s.recs = <<>>)
               => qres.r.raised = "no response"


\* thread t's refresh() is inside its lookup while thread u's _addr() call
\* stands at the lock
LookupMeetsServing(t, u) ==
    /\ op[t] = "refresh" /\ pc[t] = "resolving"
    /\ op[u] = "next" /\ pc[u] = "acquire"

\* C15 (as claimed): resolution does not serialize address serving: while a
\* refresh() is inside its lookup, an _addr() call that arrives can take the
\* lock and complete.
C15_Original ==
    \A t \in Threads : \A u \in Threads \ {t} :
        LookupMeetsServing(t, u) => lock_free(_cLock)

\* C15 (amended): the lookup runs inside the critical section: while a call
\* is inside its lookup the lock is held and every other thread is outside
\* _addr or waiting at the lock, so no address is served until the lookup
\* has returned.
C15_LookupUnderLock ==
    \A t \in Threads :
        pc[t] = "resolving" =>
            /\ _cLock = TRUE
            /\ \A u \in Threads \ {t} : pc[u] \in {"idle", "acquire"}

\* a refresh() is inside its lookup and an _addr() call of another thread
\* waits at the lock
C15_Witness ==
    \E t \in Threads : \E u \in Threads \ {t} :
        LookupMeetsServing(t, u) /\ _cLock = TRUE


\* C18: refresh() calls of several threads are serialized by the lock: at
\* most one lookup is in flight at any time, and whenever the pool is
\* between operations with its lock free, the cached list is the list of the
\* lookup that succeeded last.
C18_Serialized ==
    /\ Cardinality({t \in Threads : pc[t] = "resolving"}) <= 1
    /\ (/\ pool = "ready"
        /\ _cLock = FALSE
        /\ \A t \in Threads : pc[t] \in {"idle", "acquire"})
           => (_addresses = installed /\ installed # <<>>)

\* two threads have each completed a refresh(), the later one replacing the
\* list the constructor stored
C18_Witness ==
    /\ \E t \in Threads : \E u \in Threads \ {t} :
          /\ op[t] = "refresh" /\ pc[t] = "idle" /\ ret[t].kind = "None"
          /\ op[u] = "refresh" /\ pc[u] = "idle" /\ ret[u].kind = "None"
    /\ _cLock = FALSE
    /\ _addresses = installed
    /\ Len(installed) = 2

\* C20 (as claimed): the lock of a constructed pool is held only while an
\* operation is executing inside _addr: once every call has returned or
\* raised, the lock is free.
C20_Original ==
    (pool = "ready" /\ ~lock_free(_cLock)) =>
        \E t \in Threads : pc[t] \in {"locked", "resolving", "release", "spin"}


\* reading a dotted-decimal text back: the numbers between its dots
RECURSIVE DottedVals(_, _, _)
DottedVals(t, cur, acc) ==
    IF t = <<>> THEN Append(acc, cur)
    ELSE IF Head(t) = "." THEN DottedVals(Tail(t), 0, Append(acc, cur))
    ELSE DottedVals(Tail(t), 10 * cur + DecVal(Head(t)), acc)
IsDotted(t) ==
    \A k \in 1..Len(t) : t[k] = "." \/ \E i \in 1..10 : DecDigits[i] = t[k]

\* the octet written by the two hexadecimal characters at k and k+1 of the
\* last 8 characters of text t
OctetAt(t, k) ==
    16 * HexVal(t[Len(t) - 8 + k]) + HexVal(t[Len(t) - 7 + k])

\* the text of a record in the generic encoding ends in 8 hexadecimal
\* characters
HexSuffixed(t) ==
    Len(t) >= 8 /\ \A k \in (Len(t) - 7)..Len(t) : IsHex(t[k])
Encoded(rec) == rec.type = "generic" /\ rec.text[2] = "#"

\* ip is what the claim says is appended for record rec
NormalizedAs(rec, ip) ==
    IF Encoded(rec)
    THEN /\ IsDotted(ip)
         /\ DottedVals(ip, 0, <<>>) = <<OctetAt(rec.text, 1), OctetAt(rec.text, 3),
                                        OctetAt(rec.text, 5), OctetAt(rec.text, 7)>>
    ELSE IF rec.type = "A" THEN ip = rec.address
    ELSE ip = rec.text

\* C16: on the bypass path, for an answer whose generic-encoded records
\* (second character '#') end in 8 hexadecimal characters, the result has
\* one address per record, in the record order: the dotted-decimal rendering
\* of those 8 characters read as four 2-digit octets for an encoded record,
\* and the unchanged string form for every other record.
C16_Normalized ==
    (/\ qres.called
     /\ ~qres.r.cache
     /\ qres.s.kind = "answer"
     /\ qres.s.recs # <<>>
     /\ \A i \in 1..Len(qres.s.recs) :
           Encoded(qres.s.recs[i]) => HexSuffixed(qres.s.recs[i].text))
    => /\ qres.r.exc = ""
       /\ Len(qres.r.ips) = Len(qres.s.recs)
       /\ \A i \in 1..Len(qres.s.recs) :
             NormalizedAs(qres.s.recs[i], qres.r.ips[i])

\* a record with the hex suffix C0A80101, after a record that is not
\* encoded, came back as 192.168.1.1 in second place
C16_Witness ==
    /\ qres.called
    /\ ~qres.r.cache
    /\ qres.s.kind = "answer"
    /\ qres.s.recs = <<GenericRecord(TextPlain), GenericRecord(TextC0A80101)>>
    /\ qres.r.ips = <<TextPlain,
                      <<"1","9","2",".","1","6","8",".","1",".","1">> >>


\* the call met a failure of the internal resolver
BypassFailed == qres.called /\ ~qres.r.cache /\ qres.s.kind # "answer"

\* C19: on the bypass path every resolver failure returns a response with
\* no addresses; each of the eight distinguished failures has a non-empty
\* description that does not depend on the name asked for and differs from
\* the description of every other distinguished failure; any other error is
\* described by its own message, verbatim.
C19_Descriptions ==
    BypassFailed =>
        /\ qres.r.exc = ""
        /\ qres.r.ips = <<>>
        /\ qres.s.kind \in DistinguishedKinds =>
              /\ qres.r.raised # ""
              /\ \A f \in Fqdns :
                    query(f, FALSE, qres.s).raised = qres.r.raised
              /\ \A k \in DistinguishedKinds \ {qres.s.kind} :
                    query(qres.r.fqdn, FALSE, Failure(k)).raised # qres.r.raised
        /\ qres.s.kind \notin DistinguishedKinds =>
              qres.r.raised = dns_resolver_query(qres.s).msg

\* a rejected metaquery, the last of the distinguished failures, has been
\* reported with its description
C19_Witness ==
    /\ BypassFailed
    /\ qres.s.kind = "NoMetaqueries"
    /\ qres.r.raised = "Metaqueries are not allowed."
    /\ qres.r.ips = <<>>


\* the situations in which the claim says NSstatistics() raises
NsFails(i) == i.conn = "fail" \/ i.req = "fail" \/ i.status # 200

\* C17 (as claimed): NSstatistics() raises HcpsdkError whenever opening the
\* connection fails, the request fails or the status is not 200, and it
\* returns only on a 200 response.
C17_Original ==
    nsres.called =>
        /\ NsFails(nsres.i) =>
              (nsres.r.out = "raise" /\ nsres.r.exc = "HcpsdkError")
        /\ nsres.r.out = "return" => nsres.i.status = 200


\* C21 (as claimed): a constructor or refresh() call whose lookup has
\* returned, whatever the outcome, goes on to return or raise: it is never
\* left in the loop of lines 93-94 over an empty list, which yields nothing,
\* never ends, and keeps the lock.
C21_Original ==
    \A t \in Threads :
        op[t] \in {"construct", "refresh"} => pc[t] # "spin"

=============================================================================
